---- MODULE Spec2Model ----
(***************************************************************************)
(* A state-machine model of the lead views of the CRM (leads/views.py):    *)
(* the landing page, the sign-up view and the five login-protected lead    *)
(* views (list, detail, create, update, delete), together with the lead    *)
(* table, the user table and the mail calls made by the create view.       *)
(* One step of the model is one HTTP request handled to completion.        *)
(***************************************************************************)
EXTENDS Integers, Sequences, FiniteSets, TLC

VARIABLES
    users,       \* usernames of the stored user accounts
    leads,       \* the Lead table: a sequence of rows ordered by primary key
    next_pk,     \* the primary key the next inserted Lead receives
    mail_calls,  \* every send_mail call made so far, in order
    request,     \* the request handled by the last step
    response     \* the response returned by the last step

vars == <<users, leads, next_pk, mail_calls, request, response>>

----------------------------------------------------------------------------
(* Bounds and input alphabets *)

\* send_mail calls (and so Lead insertions) the model follows
MaxMail == 2

AnonymousUser == "AnonymousUser"
Usernames == {"test_user"}
Methods == {"GET", "POST", "DELETE"}
Fields == {"first_name", "last_name", "age"}
PkInputs == 1..(MaxMail + 1)

Restrict(f, S) == [k \in S |-> f[k]]

Form(first_name, last_name, age) ==
    [first_name |-> first_name, last_name |-> last_name, age |-> age]

\* the submitted form data: complete submissions with an age on either side of
\* the boundary 0, and submissions with fields missing
PostData ==
    { Form("John", "Doe", 30), Form("Jane", "Doe", 0),
      Form("John", "Doe", -25), Form("Jane", "Doe", -1),
      Restrict(Form("John", "Doe", 30), {"last_name", "age"}),
      Restrict(Form("Jane", "Doe", -1), {"first_name", "age"}),
      Restrict(Form("John", "Doe", 30), {"first_name", "last_name"}),
      Restrict(Form("John", "Doe", 30), {}) }

NoData == << >>
NoErrors == << >>

----------------------------------------------------------------------------
(* The Lead table *)

Pks(table) == { table[i].id : i \in 1..Len(table) }

Exists(table, pk) == pk \in Pks(table)

\* queryset.get(pk=pk)
GetObject(table, pk) == CHOOSE row \in { table[i] : i \in 1..Len(table) } : row.id = pk

\* the row a valid form saves
Row(pk, data) ==
    [id |-> pk, first_name |-> data.first_name, last_name |-> data.last_name, age |-> data.age]

\* Lead.__str__
Lead__str__(lead) == lead.first_name \o " " \o lead.last_name

----------------------------------------------------------------------------
(* Form validation *)

RequiredMessage == "This field is required."
MinValueMessage == "Ensure this value is greater than or equal to 0."

\* the fields of a submission that fail validation
BadFields(data) ==
    { k \in Fields : k \notin DOMAIN data }
        \cup (IF "age" \in DOMAIN data /\ data.age < 0 THEN {"age"} ELSE {})

\* form.errors: one message per failing field
LeadModelForm_errors(data) ==
    [k \in BadFields(data) |->
        IF k \notin DOMAIN data THEN RequiredMessage ELSE MinValueMessage]

LeadModelForm_is_valid(data) == BadFields(data) = {}

\* the sign-up form: a new username and an acceptable password
CustomUserCreationForm_is_valid(data) ==
    data.username \notin users /\ data.password_ok

CustomUserCreationForm_errors(data) ==
    [k \in (IF data.username \in users THEN {"username"} ELSE {})
             \cup (IF data.password_ok THEN {} ELSE {"password2"}) |->
        IF k = "username" THEN "A user with that username already exists."
                          ELSE "This password is not acceptable."]

----------------------------------------------------------------------------
(* Responses *)

Redirect(url) ==
    [status |-> 302, location |-> url, template |-> "", content |-> << >>,
     errors |-> NoErrors]

Render(template, content, errors) ==
    [status |-> 200, location |-> "", template |-> template, content |-> content,
     errors |-> errors]

Failure(code) ==
    [status |-> code, location |-> "", template |-> "", content |-> << >>,
     errors |-> NoErrors]

NotFound == Failure(404)
MethodNotAllowed == Failure(405)
ServerError == Failure(500)

\* the Lead rows as the templates show them
Shown(table) == [i \in 1..Len(table) |-> Lead__str__(table[i])]

Request(view, method, user, pk, data) ==
    [view |-> view, method |-> method, user |-> user, pk |-> pk, data |-> data]

----------------------------------------------------------------------------
(* LoginRequiredMixin *)

\* a view declared without the mixin lets every client through
LoginNotRequired(user) == TRUE

\* request.user.is_authenticated, tested by LoginRequiredMixin.dispatch
LoginRequired(user) == user # AnonymousUser

LoginUrl == "login"

----------------------------------------------------------------------------
(* LandingPageView and SignUpView *)

LandingPageView(method, user) ==
    /\ request' = Request("landing", method, user, 0, NoData)
    /\ response' = IF method = "GET"
                     THEN Render("landing.html", << >>, NoErrors)
                     ELSE MethodNotAllowed
    /\ UNCHANGED <<users, leads, next_pk, mail_calls>>

SignUpView_get_success_url == LoginUrl

SignUpView(method, data) ==
    /\ request' = Request("signup", method, AnonymousUser, 0, data)
    /\ UNCHANGED <<leads, next_pk, mail_calls>>
    /\ IF method = "GET"
         THEN /\ response' = Render("registration/signup.html", << >>, NoErrors)
              /\ UNCHANGED users
         ELSE IF method = "POST"
           THEN IF CustomUserCreationForm_is_valid(data)
                  THEN /\ users' = users \cup {data.username}
                       /\ response' = Redirect(SignUpView_get_success_url)
                  ELSE /\ response' = Render("registration/signup.html", << >>,
                                             CustomUserCreationForm_errors(data))
                       /\ UNCHANGED users
           ELSE /\ response' = MethodNotAllowed
                /\ UNCHANGED users

----------------------------------------------------------------------------
(* LeadListView and LeadDetailView *)

LeadListView(method, user) ==
    /\ request' = Request("lead-list", method, user, 0, NoData)
    /\ UNCHANGED <<users, leads, next_pk, mail_calls>>
    /\ response' =
         IF ~LoginRequired(user) THEN Redirect(LoginUrl)
         ELSE IF method = "GET"
           THEN Render("leads/lead_list.html", Shown(leads), NoErrors)
           ELSE MethodNotAllowed

LeadDetailView(method, user, pk) ==
    /\ request' = Request("lead-detail", method, user, pk, NoData)
    /\ UNCHANGED <<users, leads, next_pk, mail_calls>>
    /\ response' =
         IF ~LoginRequired(user) THEN Redirect(LoginUrl)
         ELSE IF method = "GET"
           THEN IF Exists(leads, pk)
                  THEN Render("leads/lead_detail.html",
                              <<Lead__str__(GetObject(leads, pk))>>, NoErrors)
                  ELSE NotFound
           ELSE MethodNotAllowed

----------------------------------------------------------------------------
(* LeadCreateView *)

LeadCreateView_get_success_url == "leads:lead-list"

\* the send_mail call of form_valid; delivered = FALSE when the transport raises
Mail(delivered) ==
    [subject |-> "A lead has been created",
     message |-> "Go to the site to see the new lead",
     from_email |-> "test@test.com",
     recipient_list |-> <<"test2@test.com">>,
     delivered |-> delivered]

\* form_valid that redirects without calling super().form_valid
LeadCreateView_form_valid_nosave(data, delivered) ==
    /\ Len(mail_calls) < MaxMail
    /\ mail_calls' = Append(mail_calls, Mail(delivered))
    /\ UNCHANGED <<leads, next_pk>>
    /\ response' = IF delivered THEN Redirect(LeadCreateView_get_success_url)
                                ELSE ServerError

\* form_valid that saves first and sends the mail afterwards
LeadCreateView_form_valid_save_first(data, delivered) ==
    /\ Len(mail_calls) < MaxMail
    /\ leads' = Append(leads, Row(next_pk, data))
    /\ next_pk' = next_pk + 1
    /\ mail_calls' = Append(mail_calls, Mail(delivered))
    /\ response' = IF delivered THEN Redirect(LeadCreateView_get_success_url)
                                ELSE ServerError

\* form_valid with the send_mail call left out
LeadCreateView_form_valid_nomail(data, delivered) ==
    /\ Len(mail_calls) < MaxMail
    /\ UNCHANGED mail_calls
    /\ leads' = Append(leads, Row(next_pk, data))
    /\ next_pk' = next_pk + 1
    /\ response' = Redirect(LeadCreateView_get_success_url)

\* form_valid: send_mail first, then super().form_valid saves and redirects;
\* an exception raised by send_mail leaves the handler before the save
LeadCreateView_form_valid(data, delivered) ==
    /\ Len(mail_calls) < MaxMail
    /\ mail_calls' = Append(mail_calls, Mail(delivered))
    /\ IF delivered
         THEN /\ leads' = Append(leads, Row(next_pk, data))
              /\ next_pk' = next_pk + 1
              /\ response' = Redirect(LeadCreateView_get_success_url)
         ELSE /\ UNCHANGED <<leads, next_pk>>
              /\ response' = ServerError

\* post with a form that checks only that the fields are present
LeadCreateView_post_unvalidated(data, delivered) ==
    IF Fields \subseteq DOMAIN data
      THEN LeadCreateView_form_valid(data, delivered)
      ELSE /\ response' = Render("leads/lead_create.html", << >>,
                                 LeadModelForm_errors(data))
           /\ UNCHANGED <<leads, next_pk, mail_calls>>

LeadCreateView_post(data, delivered) ==
    IF LeadModelForm_is_valid(data)
      THEN LeadCreateView_form_valid(data, delivered)
      ELSE /\ response' = Render("leads/lead_create.html", << >>,
                                 LeadModelForm_errors(data))
           /\ UNCHANGED <<leads, next_pk, mail_calls>>

LeadCreateView(method, user, data, delivered) ==
    /\ request' = Request("lead-create", method, user, 0, data)
    /\ UNCHANGED users
    /\ IF ~LoginRequired(user)
         THEN /\ response' = Redirect(LoginUrl)
              /\ UNCHANGED <<leads, next_pk, mail_calls>>
         ELSE IF method = "GET"
           THEN /\ response' = Render("leads/lead_create.html", << >>, NoErrors)
                /\ UNCHANGED <<leads, next_pk, mail_calls>>
           ELSE IF method = "POST"
             THEN LeadCreateView_post(data, delivered)
             ELSE /\ response' = MethodNotAllowed
                  /\ UNCHANGED <<leads, next_pk, mail_calls>>

----------------------------------------------------------------------------
(* LeadUpdateView *)

LeadUpdateView_get_success_url == "leads:lead-list"

\* a save that overwrites every row instead of the one loaded
UpdateAllRows(table, pk, data) ==
    [i \in 1..Len(table) |-> Row(table[i].id, data)]

\* form.save() on the instance loaded by get_object
UpdateRow(table, pk, data) ==
    [i \in 1..Len(table) |-> IF table[i].id = pk THEN Row(pk, data) ELSE table[i]]

\* post with a form that checks only that the fields are present
LeadUpdateView_post_unvalidated(pk, data) ==
    IF Fields \subseteq DOMAIN data
      THEN /\ leads' = UpdateRow(leads, pk, data)
           /\ response' = Redirect(LeadUpdateView_get_success_url)
      ELSE /\ response' = Render("leads/lead_update.html",
                                 <<Lead__str__(GetObject(leads, pk))>>,
                                 LeadModelForm_errors(data))
           /\ UNCHANGED leads

LeadUpdateView_post(pk, data) ==
    IF LeadModelForm_is_valid(data)
      THEN /\ leads' = UpdateRow(leads, pk, data)
           /\ response' = Redirect(LeadUpdateView_get_success_url)
      ELSE /\ response' = Render("leads/lead_update.html",
                                 <<Lead__str__(GetObject(leads, pk))>>,
                                 LeadModelForm_errors(data))
           /\ UNCHANGED leads

LeadUpdateView(method, user, pk, data) ==
    /\ request' = Request("lead-update", method, user, pk, data)
    /\ UNCHANGED <<users, next_pk, mail_calls>>
    /\ IF ~LoginRequired(user)
         THEN /\ response' = Redirect(LoginUrl)
              /\ UNCHANGED leads
         ELSE IF method \notin {"GET", "POST"}
           THEN /\ response' = MethodNotAllowed
                /\ UNCHANGED leads
           ELSE IF ~Exists(leads, pk)
             THEN /\ response' = NotFound
                  /\ UNCHANGED leads
             ELSE IF method = "GET"
               THEN /\ response' = Render("leads/lead_update.html",
                                          <<Lead__str__(GetObject(leads, pk))>>,
                                          NoErrors)
                    /\ UNCHANGED leads
               ELSE LeadUpdateView_post(pk, data)

----------------------------------------------------------------------------
(* LeadDeleteView *)

LeadDeleteView_get_success_url == "leads:lead-list"

\* a delete that removes the first row of the table, whichever was named
DeleteFirstRow(table, pk) == Tail(table)

\* self.object.delete()
DeleteRow(table, pk) == SelectSeq(table, LAMBDA row : row.id # pk)

\* a post that redirects whether or not the row exists
LeadDeleteView_post_lenient(pk) ==
    /\ leads' = DeleteRow(leads, pk)
    /\ response' = Redirect(LeadDeleteView_get_success_url)

\* post (and the DELETE method): get_object, which answers 404 for a primary
\* key that names no row, then delete and redirect
LeadDeleteView_post(pk) ==
    IF Exists(leads, pk)
      THEN /\ leads' = DeleteRow(leads, pk)
           /\ response' = Redirect(LeadDeleteView_get_success_url)
      ELSE /\ response' = NotFound
           /\ UNCHANGED leads

LeadDeleteView(method, user, pk) ==
    /\ request' = Request("lead-delete", method, user, pk, NoData)
    /\ UNCHANGED <<users, next_pk, mail_calls>>
    /\ IF ~LoginRequired(user)
         THEN /\ response' = Redirect(LoginUrl)
              /\ UNCHANGED leads
         ELSE IF method = "GET"
           THEN /\ response' =
                     IF Exists(leads, pk)
                       THEN Render("leads/lead_delete.html",
                                   <<Lead__str__(GetObject(leads, pk))>>, NoErrors)
                       ELSE NotFound
                /\ UNCHANGED leads
           ELSE LeadDeleteView_post(pk)

----------------------------------------------------------------------------
(* The specification *)

NoRequest == Request("", "", AnonymousUser, 0, NoData)
NoResponse == Failure(0)

\* the rows LeadTestCase.setUp stores
FixtureLead == [id |-> 1, first_name |-> "John", last_name |-> "Doe", age |-> 30]

\* a fresh database, or the database the test suite sets up
Init ==
    /\ \/ users = {} /\ leads = << >> /\ next_pk = 1
       \/ users = {"test_user"} /\ leads = <<FixtureLead>> /\ next_pk = 2
    /\ mail_calls = << >>
    /\ request = NoRequest
    /\ response = NoResponse

Clients == users \cup {AnonymousUser}

SignUpData == [username : Usernames, password_ok : BOOLEAN]

\* the form data and the mail transport's outcome matter to a POST only
DataOf(m, S) == IF m = "POST" THEN S ELSE {NoData}
OutcomesOf(m) == IF m = "POST" THEN BOOLEAN ELSE {TRUE}

Next ==
    \/ \E m \in Methods, u \in Clients : LandingPageView(m, u)
    \/ \E m \in Methods : \E d \in DataOf(m, SignUpData) : SignUpView(m, d)
    \/ \E m \in Methods, u \in Clients : LeadListView(m, u)
    \/ \E m \in Methods, u \in Clients, pk \in PkInputs : LeadDetailView(m, u, pk)
    \/ \E m \in Methods, u \in Clients :
          \E d \in DataOf(m, PostData), ok \in OutcomesOf(m) :
             LeadCreateView(m, u, d, ok)
    \/ \E m \in Methods, u \in Clients, pk \in PkInputs :
          \E d \in DataOf(m, PostData) : LeadUpdateView(m, u, pk, d)
    \/ \E m \in Methods, u \in Clients, pk \in PkInputs : LeadDeleteView(m, u, pk)

Spec == Init /\ [][Next]_vars

----------------------------------------------------------------------------
(* Vocabulary of the properties.  A step's request is request' and its     *)
(* response is response'; the store before the step is leads, after it     *)
(* leads'.                                                                 *)

Range(seq) == { seq[i] : i \in 1..Len(seq) }
Last(seq) == seq[Len(seq)]

ListUrl == "leads:lead-list"
Protected == {"lead-list", "lead-detail", "lead-create", "lead-update", "lead-delete"}

Anonymous(req) == req.user = AnonymousUser
LoggedIn(req) == req.user # AnonymousUser

\* a submission with a first name, a last name and an age >= 0
ValidFields(data) == Fields \subseteq DOMAIN data /\ data.age >= 0

SameFields(row, data) ==
    /\ row.first_name = data.first_name
    /\ row.last_name = data.last_name
    /\ row.age = data.age

StoreUnchanged == leads' = leads /\ next_pk' = next_pk

----------------------------------------------------------------------------
(* C1 *)

----------------------------------------------------------------------------
(* C2 *)

\* C2: a GET to the lead list by a client that has not logged in is answered
\* with status 200 and the response shows "first_name last_name" of every
\* stored Lead.
C2_AnonymousListShowsLeads ==
    (request.view = "lead-list" /\ request.method = "GET" /\ Anonymous(request)) =>
        /\ response.status = 200
        /\ \A lead \in Range(leads) :
              (lead.first_name \o " " \o lead.last_name) \in Range(response.content)

----------------------------------------------------------------------------
(* C3 *)

CreateSubmission(req) ==
    req.view = "lead-create" /\ req.method = "POST" /\ LoggedIn(req)

----------------------------------------------------------------------------
(* C4 *)

DeleteSubmission(req) ==
    req.view = "lead-delete" /\ req.method = "POST" /\ LoggedIn(req)

\* C4: after an authenticated POST to the delete view naming a stored Lead the
\* number of Leads has decreased by exactly one, the Lead removed is the one
\* named, every other Lead is unchanged, and the response is a redirect (302).
C4_DeleteRemovesNamedLead ==
    [][ (DeleteSubmission(request') /\ Exists(leads, request'.pk)) =>
            /\ Len(leads') = Len(leads) - 1
            /\ ~Exists(leads', request'.pk)
            /\ \A other \in Range(leads) :
                  other.id # request'.pk => other \in Range(leads')
            /\ response'.status = 302 ]_vars

\* the named Lead was deleted and another Lead is still stored
C4_Witness ==
    /\ DeleteSubmission(request)
    /\ response.status = 302
    /\ ~Exists(leads, request.pk)
    /\ request.pk < next_pk
    /\ \E other \in Range(leads) : other.id > request.pk

----------------------------------------------------------------------------
(* C5 *)

UpdateSubmission(req) ==
    req.view = "lead-update" /\ req.method = "POST" /\ LoggedIn(req)

----------------------------------------------------------------------------
(* C6 *)

\* a submission the form is given: an authenticated POST to the create view,
\* or to the update view of a stored Lead
FormSubmission(req, table) ==
    \/ CreateSubmission(req)
    \/ UpdateSubmission(req) /\ Exists(table, req.pk)

\* C6: a create or update submission whose fields fail validation (an age < 0
\* or a missing required field) is answered with the form rendered again with
\* status 200 and an error on each failing field (for an age < 0: "Ensure this
\* value is greater than or equal to 0."); no Lead is created or modified and no
\* notification is dispatched.
C6_InvalidFormRerendered ==
    [][ (FormSubmission(request', leads) /\ ~ValidFields(request'.data)) =>
            /\ response'.status = 200
            /\ response'.template =
                 (IF request'.view = "lead-create" THEN "leads/lead_create.html"
                                                   ELSE "leads/lead_update.html")
            /\ DOMAIN response'.errors # {}
            /\ \A k \in Fields \ DOMAIN request'.data : k \in DOMAIN response'.errors
            /\ ("age" \in DOMAIN request'.data /\ request'.data.age < 0) =>
                  /\ "age" \in DOMAIN response'.errors
                  /\ response'.errors["age"] =
                        "Ensure this value is greater than or equal to 0."
            /\ StoreUnchanged
            /\ mail_calls' = mail_calls ]_vars

\* a create submission with a negative age was answered with the age error
C6_Witness ==
    /\ CreateSubmission(request)
    /\ "age" \in DOMAIN request.data
    /\ request.data.age < 0
    /\ response.status = 200
    /\ "age" \in DOMAIN response.errors
    /\ response.errors["age"] = "Ensure this value is greater than or equal to 0."

----------------------------------------------------------------------------
(* C7 *)

\* C7 as stated: an authenticated POST to the delete view is answered with a
\* redirect (302) to the list view whether or not the named Lead exists, and
\* when it names no stored Lead the store is unchanged.
C7_DeleteAlwaysRedirects ==
    [][ DeleteSubmission(request') =>
            /\ response'.status = 302
            /\ response'.location = ListUrl
            /\ ~Exists(leads, request'.pk) => StoreUnchanged ]_vars

\* C7 as amended: an authenticated POST to the delete view naming a stored Lead
\* removes it and is answered with a redirect (302) to the list view; one naming
\* no stored Lead is answered with not-found (404) and leaves the store
\* unchanged.  Either way the named Lead is not stored afterwards, so a repeated
\* delete has the effect of a single one, and the 404 response.
C7_DeleteMissingIsNotFound ==
    [][ DeleteSubmission(request') =>
            /\ ~Exists(leads', request'.pk)
            /\ next_pk' = next_pk
            /\ IF Exists(leads, request'.pk)
                 THEN /\ response'.status = 302
                      /\ response'.location = ListUrl
                 ELSE /\ response'.status = 404
                      /\ leads' = leads ]_vars

\* a delete naming a Lead deleted earlier was answered 404, other Leads stored
C7_Witness ==
    /\ DeleteSubmission(request)
    /\ response.status = 404
    /\ request.pk < next_pk
    /\ leads # << >>

----------------------------------------------------------------------------
(* C8 *)

\* the step made a send_mail call and the transport raised
MailFailed ==
    /\ Len(mail_calls') = Len(mail_calls) + 1
    /\ ~Last(mail_calls').delivered

\* C8 as stated: in the create view's success path the Lead is persisted before
\* the notification is dispatched, so when the dispatch fails the new Lead is
\* in the store and stays there.
C8_LeadPersistedWhenMailFails ==
    [][ (CreateSubmission(request') /\ MailFailed) =>
            /\ Len(leads') = Len(leads) + 1
            /\ SameFields(Last(leads'), request'.data) ]_vars

\* C8 as amended: in the create view's success path the notification is
\* dispatched before the Lead is persisted, so when the dispatch fails the
\* submission ends in a server error with no Lead persisted and the
\* notification lost: the store is as it was before the submission.
C8_NothingPersistedWhenMailFails ==
    [][ (CreateSubmission(request') /\ MailFailed) =>
            /\ ValidFields(request'.data)
            /\ StoreUnchanged
            /\ response'.status = 500 ]_vars

\* a valid create submission ended in a server error after a failed send_mail
C8_Witness ==
    /\ CreateSubmission(request)
    /\ ValidFields(request.data)
    /\ response.status = 500
    /\ mail_calls # << >>
    /\ ~Last(mail_calls).delivered
    /\ \A row \in Range(leads) : ~SameFields(row, request.data)

----------------------------------------------------------------------------
(* C9 *)

\* C9: after any sequence of requests, from a store in which every Lead has an
\* age >= 0, every stored Lead has an age >= 0.
C9_AgesNonNegative == \A row \in Range(leads) : row.age >= 0

\* an update submission with a negative age was refused and the Lead it named
\* is stored
C9_Witness ==
    /\ UpdateSubmission(request)
    /\ Exists(leads, request.pk)
    /\ "age" \in DOMAIN request.data
    /\ request.data.age < 0
    /\ \E row \in Range(leads) : row.age = 0

----------------------------------------------------------------------------
(* C10 *)

\* C10: every authenticated create submission that passes validation makes
\* exactly one send_mail call, with the sender test@test.com and the single
\* recipient test2@test.com, and no other request makes one; so the number of
\* send_mail calls made equals the number of such submissions.
C10_OneMailPerValidCreate ==
    [][ IF CreateSubmission(request') /\ ValidFields(request'.data)
          THEN /\ Len(mail_calls') = Len(mail_calls) + 1
               /\ SubSeq(mail_calls', 1, Len(mail_calls)) = mail_calls
               /\ Last(mail_calls').from_email = "test@test.com"
               /\ Last(mail_calls').recipient_list = <<"test2@test.com">>
          ELSE mail_calls' = mail_calls ]_vars

\* two send_mail calls have been made and the last request was an update
C10_Witness ==
    /\ Len(mail_calls) = 2
    /\ \A i \in 1..Len(mail_calls) : mail_calls[i].from_email = "test@test.com"
    /\ UpdateSubmission(request)
    /\ response.status = 302

====
